---- MODULE Spec2Model ----
(***************************************************************************)
(* Model of v2v/rhv-upload-plugin.py: the nbdkit plugin that uploads a     *)
(* disk to oVirt/RHV through imageio.                                      *)
(*                                                                         *)
(* One handle is modelled.  open() runs first, on one thread.  Once it has *)
(* returned the handle, the worker threads of the parallel thread model    *)
(* run pread, pwrite, zero and flush on it, and close() may be called.     *)
(* Every blocking call (queue get/put, an HTTP exchange, a control-plane   *)
(* call) is one step, so that all interleavings of the threads between     *)
(* those calls are explored.                                               *)
(*                                                                         *)
(* Spec is that model, on the servers that keep it small.  SpecOpen is     *)
(* open() on a server giving any OPTIONS answer, followed by one worker    *)
(* thread and close().  SpecRequest is one call at a time on an open       *)
(* handle, with the request it builds: its query, body and buffers sent,   *)
(* and for pread the response it reads.  SpecLifecycle is open(), one      *)
(* worker thread and close() with the threads running open() and close()   *)
(* scheduled fairly.                                                       *)
(***************************************************************************)
EXTENDS Integers, Sequences, FiniteSets, TLC

(***************************************************************************)
(* Bounds of the model.                                                    *)
(***************************************************************************)
\* Number of worker threads calling pread/pwrite/zero/flush in parallel.
NumThreads == 2
\* Largest max_readers / max_writers value the imageio server advertises.
MaxAdvertised == 2
\* Seconds an ordinary iteration of a polling loop takes (sleep and get).
PollSeconds == 100
\* Largest number of full buffers an emulated zero is asked to send.
MaxChunks == 3
\* Largest max_readers / max_writers value of the OPTIONS answers with which
\* open() alone is explored; it exceeds MAX_CONNECTIONS.
MaxLimit == 5
\* Largest length of the buffer nbdkit calls pread with.
MaxRead == 3

(***************************************************************************)
(* Program constants.                                                      *)
(***************************************************************************)
MAX_CONNECTIONS == 4
\* len(buf) of "buf = bytearray(128 * 1024)" in emulate_zero().
ChunkSize == 128 * 1024
\* Seconds; "timeout = 5 * 60" in the source.
timeout == 5 * 60

Threads == 1..NumThreads

Min(a, b) == IF a < b THEN a ELSE b
Min3(a, b, c) == Min(a, Min(b, c))
Range(s) == {s[i] : i \in DOMAIN s}

(***************************************************************************)
(* What the environment may answer.                                        *)
(***************************************************************************)
\* types.DiskStatus values the control plane reports.
DiskStatuses == {"OK", "LOCKED", "ILLEGAL"}
\* types.ImageTransferPhase values; "OTHER" stands for every phase the
\* plugin does not name (CANCELLED, FINALIZING_SUCCESS, PAUSED_USER, ...).
\* "NOT_FOUND" below stands for sdk.NotFoundError raised by get().
Phases == {"INITIALIZING", "TRANSFERRING", "PAUSED_SYSTEM",
           "FINISHED_SUCCESS", "FINISHED_FAILURE", "OTHER"}
\* HTTP status codes the imageio server answers a GET, PUT or PATCH with: 200 is
\* what PUT and PATCH require, 206 what GET requires, and each is an unexpected
\* status for the other; 0 stands for an exception raised by the transport
\* (socket error) instead of a response.
HttpStatuses == {0, 200, 206}
\* HTTP status codes the imageio server answers OPTIONS with.
ProbeStatuses == {0, 200, 204, 405, 500}
\* The seconds one poll iteration (sleep + get) may take: an ordinary one, or
\* one whose call stalls for as long as the whole deadline.
Delays == {PollSeconds, timeout}
\* max_readers / max_writers in the OPTIONS answer; 0 stands for "absent".
Advertised == 0..MaxAdvertised
\* The OPTIONS answers of imageio servers: any set of features, with or
\* without a unix_socket, and, from the servers that have both features
\* (max_readers and max_writers came with imageio 2.0, after flush and zero),
\* the two limits.
ProbeAnswers ==
    {a \in [features : SUBSET {"flush", "zero"}, unix_socket : BOOLEAN,
            max_readers : Advertised, max_writers : Advertised] :
        \/ a.max_readers = 0 /\ a.max_writers = 0
        \/ a.features = {"flush", "zero"}}

\* Every OPTIONS answer: the features, the unix_socket and the two limits in
\* any combination, the limits up to MaxLimit.
AllProbeAnswers ==
    [features : SUBSET {"flush", "zero"}, unix_socket : BOOLEAN,
     max_readers : 0..MaxLimit, max_writers : 0..MaxLimit]

VARIABLES
    opc,          \* position of open(): see OpenPcs
    opn,          \* the locals of open() and the exception it raises
    elapsed,      \* time.time() - (start of the running poll loop), saturated
    handle,       \* the dict open() returned: can_flush, can_zero, connections
    failed,       \* h['failed']
    pool,         \* h['pool']: queue.Queue of idle connections (FIFO)
    thr,          \* the worker threads: position, operation, locals
    cl,           \* the thread running close(): position, locals, exception
    httpClosed,   \* pool connections on which close() was called
    connClosed,   \* connection.close() was called on the sdk.Connection
    cplog,        \* cancel and finalize calls sent to the control plane, in
                  \* order, each with whether it returned (ok) or raised
    diskid_file,  \* params['diskid_file']: "absent" or "written"
    req           \* the request a pwrite or zero call builds: see NoRequest

vars == <<opc, opn, elapsed, handle, failed, pool, thr, cl, httpClosed,
          connClosed, cplog, diskid_file, req>>

OpenPcs == {"start", "disk_poll", "transfer_add", "transfer_poll", "setup",
            "options", "cancel", "opened", "raised"}

NoHandle == [can_flush |-> FALSE, can_zero |-> FALSE, connections |-> 0]

\* No response to OPTIONS yet.
NoResponse == [sent |-> FALSE, status |-> 0,
               j |-> [features |-> {}, unix_socket |-> FALSE,
                      max_readers |-> 0, max_writers |-> 0]]

\* The locals of open() and of the functions it calls, before any is bound:
\* disk.status as last got, whether transfers_service.add() returned the
\* transfer, transfer.phase as last got, params['rhv_direct'] and whether
\* transfer.transfer_url is set as parse_transfer_url() read them, the scheme
\* of destination_url, the response r to OPTIONS, and the exception that
\* leaves open(); late tells whether time.time() was past endt when the last
\* iteration of a polling loop had got the status.  They are gone when
\* open() returns.
NoOpen == [disk_status |-> "none", transfer |-> FALSE, phase |-> "none",
           direct |-> FALSE, transfer_url |-> FALSE, scheme |-> "none",
           r |-> NoResponse, exc |-> "none", late |-> FALSE]

\* An entry of cplog.
Call(call, ok) == [call |-> call, ok |-> ok]
\* The calls of cplog, without their outcomes.
Calls == [i \in DOMAIN cplog |-> cplog[i].call]

IdleThread == [pc |-> "idle", op |-> "none", http |-> 0, locked |-> <<>>,
               idx |-> 0, err |-> FALSE, flushed |-> <<>>]

\* close() before it is called; phase and disk_status are transfer.phase and
\* disk.status as finalize_transfer() last got them ("NOT_FOUND": the get()
\* raised sdk.NotFoundError), late tells whether time.time() was past
\* start + timeout when the last iteration had got them; they are gone once
\* close() has acted on how finalize_transfer() ended.
NoClose == [pc |-> "none", locked |-> <<>>, exc |-> "none",
            phase |-> "none", disk_status |-> "none", late |-> FALSE]

\* No call is building a request.  Of a call: its arguments count and
\* flags & FLAG_FUA, the connection http_context() gave it, the requests it
\* put on that connection (their methods), the query of the PUT, the flush
\* and size members of the JSON body of the PATCH, the Content-Length header,
\* the count emulate_zero() has left to send, the lengths of the buffers
\* given to http.send(), whether a send raised BrokenPipeError, and the
\* value a capability query returns.  Of pread: the status and the
\* Content-Length header of the response, the values r.readinto() returned,
\* the variable got, and the message given to request_failed().
NoRequest == [pc |-> "idle", op |-> "none", count |-> 0, fua |-> FALSE,
              http |-> 0, requests |-> <<>>, query |-> "none",
              flush |-> FALSE, size |-> 0, content_length |-> 0, left |-> 0,
              sent |-> <<>>, broken |-> FALSE, answer |-> FALSE,
              status |-> 0, header |-> [present |-> FALSE, value |-> 0],
              reads |-> <<>>, got |-> 0, msg |-> "none"]

Init ==
    /\ opc = "start"
    /\ opn = NoOpen
    /\ elapsed = 0
    /\ handle = NoHandle
    /\ failed = FALSE
    /\ pool = <<>>
    /\ thr = [t \in Threads |-> IdleThread]
    /\ cl = NoClose
    /\ httpClosed = {}
    /\ connClosed = FALSE
    /\ cplog = <<>>
    /\ diskid_file = "absent"
    /\ req = NoRequest

\* time.sleep(1) and one control-plane get(): the clock moves on by d seconds.
\* Only "elapsed > timeout" is ever tested, so the value saturates above it.
Tick(d) == Min(elapsed + d, timeout + 1)

\* The deadline is a local of the polling function: once the loop is left
\* ("break" or an exception) the clock reading is dead and reads 0 again.
Clock(looping, now) == IF looping THEN now ELSE 0

(***************************************************************************)
(* open()                                                                  *)
(***************************************************************************)

\* open(), up to disks_service.add() in create_disk(): the sdk.Connection is
\* built, the host is looked up and the disk is added.  add() may raise; no
\* transfer exists then and nothing is cancelled.
OpenStart(add_ok) ==
    /\ opc = "start"
    /\ opc' = IF add_ok THEN "disk_poll" ELSE "raised"
    /\ opn' = [opn EXCEPT !.exc = IF add_ok THEN "none" ELSE "add_disk"]
    /\ elapsed' = 0
    /\ UNCHANGED <<handle, failed, pool, thr, cl, httpClosed, connClosed,
                   cplog, diskid_file, req>>

\* Mutant of CreateDiskStep: the deadline is tested before the status.
CreateDiskStepDeadlineFirst(status, late) ==
    IF late THEN "raise"
    ELSE IF status = "OK" THEN "break"
    ELSE "loop"

\* Mutant of CreateDiskStep: an ILLEGAL disk raises at once.
CreateDiskStepIllegalRaises(status, late) ==
    IF status = "OK" THEN "break"
    ELSE IF late \/ status = "ILLEGAL" THEN "raise"
    ELSE "loop"

\* What one iteration of the loop of create_disk() does with the status it
\* got: "break", "loop" or "raise".
CreateDiskStep(status, late) ==
    IF status = "OK" THEN "break"
    ELSE IF late THEN "raise"
    ELSE "loop"

\* One iteration of the loop of create_disk(): sleep, get the disk, leave the
\* loop when it is OK, otherwise test the deadline.
CreateDiskPoll(d, status) ==
    /\ opc = "disk_poll"
    /\ LET step == CreateDiskStep(status, Tick(d) > timeout) IN
        /\ opc' = CASE step = "break" -> "transfer_add"
                    [] step = "loop" -> "disk_poll"
                    [] OTHER -> "raised"
        /\ opn' = [opn EXCEPT
                      !.disk_status = status,
                      !.late = Tick(d) > timeout,
                      !.exc = IF step = "raise" THEN "disk_timeout" ELSE "none"]
        /\ elapsed' = Clock(step = "loop", Tick(d))
    /\ UNCHANGED <<handle, failed, pool, thr, cl, httpClosed, connClosed,
                   cplog, diskid_file, req>>

\* create_transfer(), up to transfers_service.add().
CreateTransferAdd(add_ok) ==
    /\ opc = "transfer_add"
    /\ opc' = IF add_ok THEN "transfer_poll" ELSE "raised"
    /\ opn' = [opn EXCEPT !.transfer = add_ok,
                          !.late = FALSE,
                          !.exc = IF add_ok THEN "none" ELSE "add_transfer"]
    /\ elapsed' = 0
    /\ UNCHANGED <<handle, failed, pool, thr, cl, httpClosed, connClosed,
                   cplog, diskid_file, req>>

\* Mutant of CreateTransferStep: a paused transfer raises without the cancel
\* call, like a failed one.
CreateTransferStepPausedRaises(phase, late) ==
    IF phase = "NOT_FOUND" THEN "raise"
    ELSE IF phase = "FINISHED_FAILURE" THEN "raise"
    ELSE IF phase = "PAUSED_SYSTEM" THEN "raise"
    ELSE IF phase = "TRANSFERRING" THEN "break"
    ELSE IF phase # "INITIALIZING" THEN "cancel_raise"
    ELSE IF late THEN "cancel_raise"
    ELSE "loop"

\* Mutant of CreateTransferStep: no test for an unexpected phase; the loop
\* goes on until the deadline.
CreateTransferStepAnyPhaseLoops(phase, late) ==
    IF phase = "NOT_FOUND" THEN "raise"
    ELSE IF phase = "FINISHED_FAILURE" THEN "raise"
    ELSE IF phase = "PAUSED_SYSTEM" THEN "cancel_raise"
    ELSE IF phase = "TRANSFERRING" THEN "break"
    ELSE IF late THEN "cancel_raise"
    ELSE "loop"

\* What one iteration of the loop of create_transfer() does with the phase it
\* got: "break", "loop", "raise", or "cancel_raise" (transfer_service.cancel()
\* and then raise).
CreateTransferStep(phase, late) ==
    IF phase = "NOT_FOUND" THEN "raise"
    ELSE IF phase = "FINISHED_FAILURE" THEN "raise"
    ELSE IF phase = "PAUSED_SYSTEM" THEN "cancel_raise"
    ELSE IF phase = "TRANSFERRING" THEN "break"
    ELSE IF phase # "INITIALIZING" THEN "cancel_raise"
    ELSE IF late THEN "cancel_raise"
    ELSE "loop"

\* The RuntimeError an iteration of the loop of create_transfer() raises when
\* it does not break or loop.
CreateTransferError(phase) ==
    IF phase = "NOT_FOUND" THEN "removed"
    ELSE IF phase = "FINISHED_FAILURE" THEN "failed"
    ELSE IF phase = "PAUSED_SYSTEM" THEN "paused"
    ELSE IF phase # "INITIALIZING" THEN "unexpected"
    ELSE "timeout"

\* One iteration of the loop of create_transfer().  When
\* transfer_service.cancel() raises, its error replaces the RuntimeError.
CreateTransferPoll(d, phase, cancel_ok) ==
    /\ opc = "transfer_poll"
    /\ LET step == CreateTransferStep(phase, Tick(d) > timeout) IN
        /\ opc' = CASE step = "break" -> "setup"
                    [] step = "loop" -> "transfer_poll"
                    [] OTHER -> "raised"
        /\ cplog' = IF step = "cancel_raise"
                    THEN Append(cplog, Call("cancel", cancel_ok))
                    ELSE cplog
        /\ opn' = [opn EXCEPT
                      !.phase = phase,
                      !.late = Tick(d) > timeout,
                      !.exc = IF step \in {"break", "loop"} THEN "none"
                              ELSE IF step = "cancel_raise" /\ ~cancel_ok
                                   THEN "cancel"
                              ELSE CreateTransferError(phase)]
        /\ elapsed' = Clock(step = "loop", Tick(d))
    /\ UNCHANGED <<handle, failed, pool, thr, cl, httpClosed, connClosed,
                   diskid_file, req>>

\* parse_transfer_url(): raises when direct upload is asked for and the
\* transfer has no transfer_url.
ParseTransferUrlOk(rhv_direct, has_transfer_url) ==
    ~rhv_direct \/ has_transfer_url

\* create_http(): raises for a scheme other than https and http.
CreateHttpOk(scheme) == scheme \in {"https", "http"}

\* get_options(): the options dict, or ok = FALSE when it raises (a status
\* other than 200, 405 and 204; status 0 is an exception of the transport).
get_options(status, features, unix_socket, max_readers, max_writers) ==
    IF status = 200 THEN
        [ok |-> TRUE,
         can_flush |-> "flush" \in features,
         can_zero |-> "zero" \in features,
         unix_socket |-> unix_socket,
         max_readers |-> IF max_readers = 0 THEN 1 ELSE max_readers,
         max_writers |-> IF max_writers = 0 THEN 1 ELSE max_writers]
    ELSE IF status = 405 \/ status = 204 THEN
        [ok |-> TRUE, can_flush |-> FALSE, can_zero |-> FALSE,
         unix_socket |-> FALSE, max_readers |-> 1, max_writers |-> 1]
    ELSE
        [ok |-> FALSE, can_flush |-> FALSE, can_zero |-> FALSE,
         unix_socket |-> FALSE, max_readers |-> 1, max_writers |-> 1]

\* Mutant of create_http_pool: the count is not capped by MAX_CONNECTIONS.
create_http_pool_uncapped(options) ==
    LET count == Min(options.max_readers, options.max_writers)
    IN [i \in 1..count |-> i]

\* create_http_pool(): the queue of count connections, numbered 1..count.
create_http_pool(options) ==
    LET count == Min3(options.max_readers, options.max_writers,
                      MAX_CONNECTIONS)
    IN [i \in 1..count |-> i]

\* The options dict get_options() makes of the response r.
OptionsOf(r) ==
    get_options(r.status, r.j.features, r.j.unix_socket, r.j.max_readers,
                r.j.max_writers)

\* The try block of open(), up to the response to OPTIONS: parse the URL,
\* create the first connection, send OPTIONS and read the response.  An
\* exception of parse_transfer_url() or create_http() leads to the except
\* clause.
OpenProbe(rhv_direct, has_transfer_url, scheme, status, j) ==
    /\ opc = "setup"
    /\ LET parsed == [opn EXCEPT !.direct = rhv_direct,
                                 !.transfer_url = has_transfer_url,
                                 !.late = FALSE]
       IN IF ~ParseTransferUrlOk(rhv_direct, has_transfer_url)
          THEN /\ opc' = "cancel"
               /\ opn' = [parsed EXCEPT !.exc = "no_direct_url"]
          ELSE IF ~CreateHttpOk(scheme)
          THEN /\ opc' = "cancel"
               /\ opn' = [parsed EXCEPT !.scheme = scheme, !.exc = "scheme"]
          ELSE /\ opc' = "options"
               /\ opn' = [parsed EXCEPT
                             !.scheme = scheme,
                             !.r = [sent |-> TRUE, status |-> status, j |-> j]]
    /\ UNCHANGED <<elapsed, handle, failed, pool, thr, cl, httpClosed,
                   connClosed, cplog, diskid_file, req>>

\* The rest of the try block of open(): get_options() makes the options of
\* the response or raises, the first connection is closed and the pool is
\* created.  Any exception leads to the except clause; otherwise the handle
\* is returned, with failed False.
OpenSetup(pool_ok) ==
    /\ opc = "options"
    /\ LET options == OptionsOf(opn.r) IN
        IF options.ok /\ pool_ok
        THEN /\ opc' = "opened"
             /\ opn' = NoOpen
             /\ pool' = create_http_pool(options)
             /\ handle' = [can_flush |-> options.can_flush,
                           can_zero |-> options.can_zero,
                           connections |-> Len(pool')]
             /\ failed' = FALSE
        ELSE /\ opc' = "cancel"
             /\ opn' = [opn EXCEPT
                           !.exc = IF options.ok THEN "pool" ELSE "options"]
             /\ UNCHANGED <<pool, handle, failed>>
    /\ UNCHANGED <<elapsed, thr, cl, httpClosed, connClosed, cplog,
                   diskid_file, req>>

\* Mutant of OpenCancel: the except clause re-raises without cancelling.
OpenCancelSkipped(cancel_ok) ==
    /\ opc = "cancel"
    /\ opc' = "raised"
    /\ UNCHANGED <<opn, elapsed, handle, failed, pool, thr, cl, httpClosed,
                   connClosed, cplog, diskid_file, req>>

\* The except clause of open(): cancel_transfer() and re-raise.  Whether the
\* cancel call itself raises or not, open() raises: the exception of the try
\* block, or the one of cancel_transfer() when that raises.
OpenCancel(cancel_ok) ==
    /\ opc = "cancel"
    /\ opc' = "raised"
    /\ opn' = [opn EXCEPT !.exc = IF cancel_ok THEN @ ELSE "cancel"]
    /\ cplog' = Append(cplog, Call("cancel", cancel_ok))
    /\ UNCHANGED <<elapsed, handle, failed, pool, thr, cl, httpClosed,
                   connClosed, diskid_file, req>>

\* open(), called by nbdkit on the server answering OPTIONS with one of
\* answers.
OpenWith(answers) ==
    \/ \E add_ok \in BOOLEAN : OpenStart(add_ok)
    \/ \E d \in Delays, status \in DiskStatuses : CreateDiskPoll(d, status)
    \/ \E add_ok \in BOOLEAN : CreateTransferAdd(add_ok)
    \/ \E d \in Delays, phase \in Phases \cup {"NOT_FOUND"},
          cancel_ok \in BOOLEAN :
          CreateTransferPoll(d, phase, cancel_ok)
    \/ /\ opc = "setup"
       /\ \E rhv_direct \in BOOLEAN, has_transfer_url \in BOOLEAN,
             scheme \in {"https", "http", "ftp"}, status \in ProbeStatuses,
             j \in answers :
             OpenProbe(rhv_direct, has_transfer_url, scheme, status, j)
    \/ \E pool_ok \in BOOLEAN : OpenSetup(pool_ok)
    \/ \E cancel_ok \in BOOLEAN : OpenCancel(cancel_ok)

Open == OpenWith(ProbeAnswers)

(***************************************************************************)
(* The worker threads: pread, pwrite, zero, flush                          *)
(***************************************************************************)

Ops == {"pread", "pwrite", "zero", "flush"}

\* The connections a worker thread has taken out of the pool and not put
\* back: the one http_context() gave it, or the part of the list "locked" of
\* iter_http_pool() that the finally clause has not yet put back.
Held(t) ==
    IF thr[t].pc \in {"collect", "iterate"} THEN Range(thr[t].locked)
    ELSE IF thr[t].pc = "unlock"
         THEN {thr[t].locked[i] : i \in thr[t].idx..Len(thr[t].locked)}
    ELSE IF thr[t].http # 0 THEN {thr[t].http}
    ELSE {}

\* The connections close_http_pool() has taken out of the pool.
ClosingHeld == Range(cl.locked)

\* nbdkit calls pread/pwrite/zero/flush on the handle: the wrapper of
\* "failing" calls the function, which reaches pool.get() in http_context()
\* or in iter_http_pool().
OpStart(t, op) ==
    /\ opc = "opened"
    /\ thr[t].pc = "idle"
    /\ thr' = [thr EXCEPT ![t] = [IdleThread EXCEPT
                  !.op = op,
                  !.pc = IF op = "flush" THEN "collect" ELSE "get"]]
    /\ UNCHANGED <<opc, opn, elapsed, handle, failed, pool, cl, httpClosed,
                   connClosed, cplog, diskid_file, req>>

\* Mutant of Checkout: the connection is read off the queue but left in it.
CheckoutPeek(t) ==
    /\ thr[t].pc = "get"
    /\ pool # <<>>
    /\ thr' = [thr EXCEPT ![t].http = Head(pool), ![t].pc = "request"]
    /\ UNCHANGED <<opc, opn, elapsed, handle, failed, pool, cl, httpClosed,
                   connClosed, cplog, diskid_file, req>>

\* http_context(): http = pool.get(), blocking while the queue is empty.
Checkout(t) ==
    /\ thr[t].pc = "get"
    /\ pool # <<>>
    /\ thr' = [thr EXCEPT ![t].http = Head(pool), ![t].pc = "request"]
    /\ pool' = Tail(pool)
    /\ UNCHANGED <<opc, opn, elapsed, handle, failed, cl, httpClosed,
                   connClosed, cplog, diskid_file, req>>

\* The status pread/pwrite/zero/emulate_zero require of the response.
ExpectedStatus(op) == IF op = "pread" THEN 206 ELSE 200

\* The body of the with block of pread, pwrite, zero and emulate_zero: the
\* request is sent on the borrowed connection and the response is read.  The
\* block ends normally when the status is the expected one and the rest of
\* the response is as required (pread: Content-Length equal to the count and
\* no short read; the others: r.read() returns); otherwise it raises.
ExchangeOk(op, status, rest_ok) ==
    status = ExpectedStatus(op) /\ rest_ok

\* Where a function goes when its with block or its for loop is left: it
\* returns to nbdkit, or the exception reaches the wrapper of "failing".
AfterRelease(err) == IF err THEN "unwinding" ELSE "returned"

\* Mutant of Exchange: no finally clause in http_context(); the connection is
\* put back only when the with block ends normally.
ExchangeNoFinally(t, status, rest_ok) ==
    /\ thr[t].pc = "request"
    /\ LET err == ~ExchangeOk(thr[t].op, status, rest_ok) IN
        /\ pool' = IF err THEN pool ELSE Append(pool, thr[t].http)
        /\ thr' = [thr EXCEPT ![t].http = 0,
                              ![t].err = err,
                              ![t].pc = AfterRelease(err)]
    /\ UNCHANGED <<opc, opn, elapsed, handle, failed, cl, httpClosed,
                   connClosed, cplog, diskid_file, req>>

\* The with block of pread, pwrite, zero and emulate_zero, from the request
\* to the finally clause of http_context(): the exchange on the borrowed
\* connection, which no other thread can see, and then pool.put(http).
Exchange(t, status, rest_ok) ==
    /\ thr[t].pc = "request"
    /\ pool' = Append(pool, thr[t].http)
    /\ LET err == ~ExchangeOk(thr[t].op, status, rest_ok) IN
        thr' = [thr EXCEPT ![t].http = 0,
                           ![t].err = err,
                           ![t].pc = AfterRelease(err)]
    /\ UNCHANGED <<opc, opn, elapsed, handle, failed, cl, httpClosed,
                   connClosed, cplog, diskid_file, req>>

\* Mutant of MarkFailed: the exception is re-raised without marking the handle.
MarkFailedSkipped(t) ==
    /\ thr[t].pc = "unwinding"
    /\ thr' = [thr EXCEPT ![t].pc = "raised"]
    /\ UNCHANGED <<opc, opn, elapsed, handle, failed, pool, cl, httpClosed,
                   connClosed, cplog, diskid_file, req>>

\* The except clause of the wrapper of "failing": h['failed'] = True, raise.
MarkFailed(t) ==
    /\ thr[t].pc = "unwinding"
    /\ failed' = TRUE
    /\ thr' = [thr EXCEPT ![t].pc = "raised"]
    /\ UNCHANGED <<opc, opn, elapsed, handle, pool, cl, httpClosed, connClosed,
                   cplog, diskid_file, req>>

\* nbdkit has got the result of the call; the thread is free for the next.
OpEnd(t) ==
    /\ thr[t].pc \in {"returned", "raised"}
    /\ thr' = [thr EXCEPT ![t] = IdleThread]
    /\ UNCHANGED <<opc, opn, elapsed, handle, failed, pool, cl, httpClosed,
                   connClosed, cplog, diskid_file, req>>

\* Mutant of Collected: the collecting loop stops one connection short.
CollectedEarly(locked) == Len(locked) >= handle.connections - 1

\* iter_http_pool(): the loop "while len(locked) < h['connections']" has
\* collected them all.
Collected(locked) == Len(locked) >= handle.connections

\* Mutant of FlushCollect: the connection is read off the queue but left in it.
FlushCollectPeek(t) ==
    /\ thr[t].pc = "collect"
    /\ pool # <<>>
    /\ LET locked == Append(thr[t].locked, Head(pool)) IN
        thr' = [thr EXCEPT ![t].locked = locked,
                   ![t].idx = IF Collected(locked) THEN 1 ELSE 0,
                   ![t].pc = IF Collected(locked) THEN "iterate"
                             ELSE "collect"]
    /\ UNCHANGED <<opc, opn, elapsed, handle, failed, pool, cl, httpClosed,
                   connClosed, cplog, diskid_file, req>>

\* iter_http_pool(), one iteration of the collecting loop:
\* locked.append(pool.get()).  With the last connection the generator yields
\* the first one to the for loop of flush().
FlushCollect(t) ==
    /\ thr[t].pc = "collect"
    /\ pool # <<>>
    /\ LET locked == Append(thr[t].locked, Head(pool)) IN
        thr' = [thr EXCEPT ![t].locked = locked,
                   ![t].idx = IF Collected(locked) THEN 1 ELSE 0,
                   ![t].pc = IF Collected(locked) THEN "iterate"
                             ELSE "collect"]
    /\ pool' = Tail(pool)
    /\ UNCHANGED <<opc, opn, elapsed, handle, failed, cl, httpClosed,
                   connClosed, cplog, diskid_file, req>>

\* Mutant of FlushOk: the status of the response is not tested.
FlushOkAnyStatus(status, rest_ok) == status # 0 /\ rest_ok

\* The body of the for loop of flush() raises unless the status is 200 and
\* r.read() returns.
FlushOk(status, rest_ok) == status = 200 /\ rest_ok

\* flush(), one iteration of "for http in iter_http_pool(h)": the PATCH is
\* sent on locked[idx] and the response is read.  After the last connection,
\* or when the body raises and the frame of flush() is unwound, the generator
\* is finalized and runs its finally clause.
FlushSend(t, status, rest_ok) ==
    /\ thr[t].pc = "iterate"
    /\ LET http == thr[t].locked[thr[t].idx]
           ok == FlushOk(status, rest_ok)
           last == thr[t].idx = Len(thr[t].locked)
       IN thr' = [thr EXCEPT
                    ![t].flushed = Append(@, [http |-> http,
                                              status |-> status]),
                    ![t].err = ~ok,
                    ![t].idx = IF ok /\ ~last THEN @ + 1 ELSE 1,
                    ![t].pc = IF ok /\ ~last THEN "iterate" ELSE "unlock"]
    /\ UNCHANGED <<opc, opn, elapsed, handle, failed, pool, cl, httpClosed,
                   connClosed, cplog, diskid_file, req>>

\* The finally clause of iter_http_pool(), one iteration of
\* "for http in locked: pool.put(http)".
FlushUnlock(t) ==
    /\ thr[t].pc = "unlock"
    /\ pool' = Append(pool, thr[t].locked[thr[t].idx])
    /\ LET last == thr[t].idx = Len(thr[t].locked) IN
        thr' = [thr EXCEPT
                   ![t].idx = IF last THEN 0 ELSE @ + 1,
                   ![t].locked = IF last THEN <<>> ELSE @,
                   ![t].pc = IF last THEN AfterRelease(thr[t].err)
                             ELSE "unlock"]
    /\ UNCHANGED <<opc, opn, elapsed, handle, failed, cl, httpClosed,
                   connClosed, cplog, diskid_file, req>>

Worker(t) ==
    \/ \E op \in Ops : OpStart(t, op)
    \/ Checkout(t)
    \/ \E status \in HttpStatuses, rest_ok \in BOOLEAN :
          Exchange(t, status, rest_ok)
    \/ MarkFailed(t)
    \/ OpEnd(t)
    \/ FlushCollect(t)
    \/ \E status \in HttpStatuses, rest_ok \in BOOLEAN :
          FlushSend(t, status, rest_ok)
    \/ FlushUnlock(t)

(***************************************************************************)
(* close()                                                                 *)
(***************************************************************************)

\* Mutant of CloseStart: close() goes to the finalize or cancel call without
\* calling close_http_pool().
CloseStartNoDrain ==
    /\ opc = "opened"
    /\ cl.pc = "none"
    /\ cl' = [cl EXCEPT !.pc = "check"]
    /\ UNCHANGED <<opc, opn, elapsed, handle, failed, pool, thr, httpClosed,
                   connClosed, cplog, diskid_file, req>>

\* nbdkit calls close(h); it reaches close_http_pool().
CloseStart ==
    /\ opc = "opened"
    /\ cl.pc = "none"
    /\ cl' = [cl EXCEPT !.pc = "collect"]
    /\ UNCHANGED <<opc, opn, elapsed, handle, failed, pool, thr, httpClosed,
                   connClosed, cplog, diskid_file, req>>

\* close_http_pool(), one iteration of the collecting loop:
\* locked.append(pool.get()).
CloseCollect ==
    /\ cl.pc = "collect"
    /\ pool # <<>>
    /\ LET locked == Append(cl.locked, Head(pool)) IN
        cl' = [cl EXCEPT !.locked = locked,
                         !.pc = IF Collected(locked) THEN "closing"
                                ELSE "collect"]
    /\ pool' = Tail(pool)
    /\ UNCHANGED <<opc, opn, elapsed, handle, failed, thr, httpClosed,
                   connClosed, cplog, diskid_file, req>>

\* Mutant of CloseHttpPool: the connections are closed and then put back into
\* the queue, as the finally clause of iter_http_pool() does.
CloseHttpPoolPutBack ==
    /\ cl.pc = "closing"
    /\ httpClosed' = httpClosed \cup Range(cl.locked)
    /\ pool' = pool \o cl.locked
    /\ cl' = [cl EXCEPT !.pc = "check", !.locked = <<>>]
    /\ UNCHANGED <<opc, opn, elapsed, handle, failed, thr, connClosed, cplog,
                   diskid_file, req>>

\* close_http_pool(): "for http in locked: http.close()".
CloseHttpPool ==
    /\ cl.pc = "closing"
    /\ httpClosed' = httpClosed \cup Range(cl.locked)
    /\ cl' = [cl EXCEPT !.pc = "check"]
    /\ UNCHANGED <<opc, opn, elapsed, handle, failed, pool, thr, connClosed,
                   cplog, diskid_file, req>>

\* close(): "if h['failed']" selects the cancel path or the finalize path.
CloseBranch(h_failed) == IF h_failed THEN "cancel_failed" ELSE "finalize"

CloseCheckFailed ==
    /\ cl.pc = "check"
    /\ cl' = [cl EXCEPT !.pc = CloseBranch(failed)]
    /\ UNCHANGED <<opc, opn, elapsed, handle, failed, pool, thr, httpClosed,
                   connClosed, cplog, diskid_file, req>>

\* Mutant of CloseCancelFailed: no return after the finally clause; close()
\* goes on to finalize the transfer it has just cancelled.
CloseCancelFailedNoReturn(cancel_ok) ==
    /\ cl.pc = "cancel_failed"
    /\ cplog' = Append(cplog, Call("cancel", cancel_ok))
    /\ cl' = [cl EXCEPT !.exc = IF cancel_ok THEN "none" ELSE "cancel",
                        !.pc = IF cancel_ok THEN "finalize" ELSE "conn_close"]
    /\ UNCHANGED <<opc, opn, elapsed, handle, failed, pool, thr, httpClosed,
                   connClosed, diskid_file, req>>

\* Mutant of CloseCancelFailed: no try/finally around cancel_transfer(); when
\* the call raises, close() is left at once.
CloseCancelFailedNoFinally(cancel_ok) ==
    /\ cl.pc = "cancel_failed"
    /\ cplog' = Append(cplog, Call("cancel", cancel_ok))
    /\ cl' = [cl EXCEPT !.exc = IF cancel_ok THEN "none" ELSE "cancel",
                        !.pc = IF cancel_ok THEN "conn_close" ELSE "raised"]
    /\ UNCHANGED <<opc, opn, elapsed, handle, failed, pool, thr, httpClosed,
                   connClosed, diskid_file, req>>

\* close(), failed handle: cancel_transfer() inside try/finally.  The call may
\* raise; the finally clause runs next either way.
CloseCancelFailed(cancel_ok) ==
    /\ cl.pc = "cancel_failed"
    /\ cplog' = Append(cplog, Call("cancel", cancel_ok))
    /\ cl' = [cl EXCEPT !.exc = IF cancel_ok THEN "none" ELSE "cancel",
                        !.pc = "conn_close"]
    /\ UNCHANGED <<opc, opn, elapsed, handle, failed, pool, thr, httpClosed,
                   connClosed, diskid_file, req>>

\* finalize_transfer(): start = time.time(); transfer_service.finalize().
\* When the call raises, the except clause of close() is next.
FinalizeCall(finalize_ok) ==
    /\ cl.pc = "finalize"
    /\ cplog' = Append(cplog, Call("finalize", finalize_ok))
    /\ elapsed' = 0
    /\ cl' = IF finalize_ok THEN [cl EXCEPT !.pc = "finalize_poll"]
             ELSE [cl EXCEPT !.pc = "cancel_fin", !.exc = "finalize"]
    /\ UNCHANGED <<opc, opn, handle, failed, pool, thr, httpClosed, connClosed,
                   diskid_file, req>>

\* Mutant of FinalizeStep: the loop has no deadline.
FinalizeStepNoDeadline(phase, disk, late) ==
    IF phase = "NOT_FOUND" THEN
        IF disk = "NOT_FOUND" THEN "raise"
        ELSE IF disk = "OK" THEN "break"
        ELSE "raise"
    ELSE IF phase = "FINISHED_SUCCESS" THEN "break"
    ELSE IF phase = "FINISHED_FAILURE" THEN "raise"
    ELSE IF phase = "PAUSED_SYSTEM" THEN "raise"
    ELSE "loop"

\* Mutant of FinalizeStep: a removed transfer counts as finalized whenever the
\* disk is still there, whatever its status.
FinalizeStepAnyDisk(phase, disk, late) ==
    IF phase = "NOT_FOUND" THEN
        IF disk = "NOT_FOUND" THEN "raise"
        ELSE "break"
    ELSE IF phase = "FINISHED_SUCCESS" THEN "break"
    ELSE IF phase = "FINISHED_FAILURE" THEN "raise"
    ELSE IF phase = "PAUSED_SYSTEM" THEN "raise"
    ELSE IF late THEN "raise"
    ELSE "loop"

\* What one iteration of the loop of finalize_transfer() does with the
\* transfer it got ("NOT_FOUND": sdk.NotFoundError) and, when the transfer is
\* gone, with the disk it then gets: "break", "raise" or "loop".
FinalizeStep(phase, disk, late) ==
    IF phase = "NOT_FOUND" THEN
        IF disk = "NOT_FOUND" THEN "raise"
        ELSE IF disk = "OK" THEN "break"
        ELSE "raise"
    ELSE IF phase = "FINISHED_SUCCESS" THEN "break"
    ELSE IF phase = "FINISHED_FAILURE" THEN "raise"
    ELSE IF phase = "PAUSED_SYSTEM" THEN "raise"
    ELSE IF late THEN "raise"
    ELSE "loop"

\* One iteration of the loop of finalize_transfer().  Leaving the loop leads
\* to the else clause of close(), raising to its except clause.  The disk is
\* got only when the transfer is not found.
FinalizePoll(d, phase, disk) ==
    /\ cl.pc = "finalize_poll"
    /\ LET late == Tick(d) > timeout
           step == FinalizeStep(phase, disk, late)
           got == IF phase = "NOT_FOUND" THEN disk ELSE "none"
       IN
        /\ cl' = CASE step = "break" -> [cl EXCEPT !.pc = "write",
                                                   !.phase = phase,
                                                   !.disk_status = got,
                                                   !.late = late]
                   [] step = "raise" -> [cl EXCEPT !.pc = "cancel_fin",
                                                   !.exc = "finalize",
                                                   !.phase = phase,
                                                   !.disk_status = got,
                                                   !.late = late]
                   [] OTHER -> [cl EXCEPT !.phase = phase, !.late = late]
        /\ elapsed' = Clock(step = "loop", Tick(d))
    /\ UNCHANGED <<opc, opn, handle, failed, pool, thr, httpClosed, connClosed,
                   cplog, diskid_file, req>>

\* The exception that leaves the except clause of close(): the bare raise
\* re-raises the one finalize_transfer() raised, unless cancel_transfer()
\* raised its own first.
AfterCancel(exc, cancel_ok) == IF cancel_ok THEN exc ELSE "cancel"

\* Mutant of CloseCancelFin: the except clause re-raises without cancelling.
CloseCancelFinSkipped(cancel_ok) ==
    /\ cl.pc = "cancel_fin"
    /\ cl' = [cl EXCEPT !.pc = "conn_close"]
    /\ UNCHANGED <<opc, opn, elapsed, handle, failed, pool, thr, httpClosed,
                   connClosed, cplog, diskid_file, req>>

\* close(), except clause: cancel_transfer(connection, transfer); raise.
CloseCancelFin(cancel_ok) ==
    /\ cl.pc = "cancel_fin"
    /\ cplog' = Append(cplog, Call("cancel", cancel_ok))
    /\ cl' = [cl EXCEPT !.exc = AfterCancel(cl.exc, cancel_ok),
                        !.phase = "none", !.disk_status = "none",
                        !.late = FALSE, !.pc = "conn_close"]
    /\ UNCHANGED <<opc, opn, elapsed, handle, failed, pool, thr, httpClosed,
                   connClosed, diskid_file, req>>

\* close(), else clause: the disk id is written to params['diskid_file'].
\* builtins.open() may raise (the file is not written then).
CloseWrite(write_ok) ==
    /\ cl.pc = "write"
    /\ diskid_file' = IF write_ok THEN "written" ELSE diskid_file
    /\ cl' = [cl EXCEPT !.exc = IF write_ok THEN "none" ELSE "write",
                        !.phase = "none", !.disk_status = "none",
                        !.late = FALSE, !.pc = "conn_close"]
    /\ UNCHANGED <<opc, opn, elapsed, handle, failed, pool, thr, httpClosed,
                   connClosed, cplog, req>>

\* How close() ends once connection.close() has run: it returns, or the
\* pending exception reaches nbdkit.
CloseEnd(exc) == IF exc = "none" THEN "returned" ELSE "raised"

\* close(), both finally clauses: connection.close().
CloseConnection ==
    /\ cl.pc = "conn_close"
    /\ connClosed' = TRUE
    /\ cl' = [cl EXCEPT !.pc = CloseEnd(cl.exc), !.locked = <<>>]
    /\ UNCHANGED <<opc, opn, elapsed, handle, failed, pool, thr, httpClosed,
                   cplog, diskid_file, req>>

Close ==
    \/ CloseStart
    \/ CloseCollect
    \/ CloseHttpPool
    \/ CloseCheckFailed
    \/ \E cancel_ok \in BOOLEAN : CloseCancelFailed(cancel_ok)
    \/ \E finalize_ok \in BOOLEAN : FinalizeCall(finalize_ok)
    \/ \E d \in Delays, phase \in Phases \cup {"NOT_FOUND"},
          disk \in DiskStatuses \cup {"NOT_FOUND"} :
          FinalizePoll(d, phase, disk)
    \/ \E cancel_ok \in BOOLEAN : CloseCancelFin(cancel_ok)
    \/ \E write_ok \in BOOLEAN : CloseWrite(write_ok)
    \/ CloseConnection

Next ==
    \/ Open
    \/ \E t \in Threads : Worker(t)
    \/ Close

Spec == Init /\ [][Next]_vars

\* open() on a server that may give any OPTIONS answer, and then the calls of
\* one worker thread and close() on the handle.
NextOpen ==
    \/ OpenWith(AllProbeAnswers)
    \/ Worker(1)
    \/ Close

SpecOpen == Init /\ [][NextOpen]_vars

\* open(), the calls of one worker thread, and close().
NextLifecycle ==
    \/ Open
    \/ Worker(1)
    \/ Close

\* The thread that runs open() and the one that runs close() are scheduled:
\* a step of theirs that stays possible is taken, whatever the worker thread
\* does.  In a polling loop that step is time.sleep(1) and the control-plane
\* get(), which return, after which the clock has moved on.
SpecLifecycle ==
    Init /\ [][NextLifecycle]_vars /\ WF_vars(Open) /\ WF_vars(Close)

(***************************************************************************)
(* The requests of pwrite and zero                                         *)
(***************************************************************************)

\* The counts nbdkit calls pwrite and zero with: at least 1, here the
\* multiples of the buffer length of emulate_zero() and their neighbours.
Counts ==
    {c \in {k * ChunkSize + e : k \in 0..MaxChunks, e \in {-1, 0, 1}} : c >= 1}

\* The variables a call building a request does not touch.
sessionVars == <<opc, opn, elapsed, handle, failed, thr, cl, httpClosed,
                 connClosed, cplog, diskid_file>>

\* The handles open() returns with one connection, before any call on them.
InitRequest ==
    /\ opc = "opened"
    /\ opn = NoOpen
    /\ elapsed = 0
    /\ handle \in [can_flush : BOOLEAN, can_zero : BOOLEAN, connections : {1}]
    /\ failed = FALSE
    /\ pool = <<1>>
    /\ thr = [t \in Threads |-> IdleThread]
    /\ cl = NoClose
    /\ httpClosed = {}
    /\ connClosed = FALSE
    /\ cplog = <<>>
    /\ diskid_file = "absent"
    /\ req = NoRequest

\* can_flush(h).
can_flush(h) == h.can_flush

\* can_fua(h).
can_fua(h) == h.can_flush

\* Mutant of PutQuery: the flag alone selects the flush option.
PutQueryFuaOnly(h_can_flush, fua) == IF fua THEN "flush=y" ELSE "flush=n"

\* pwrite() and emulate_zero(): the query of the PUT,
\* "?flush=" + ("y" if (h['can_flush'] and (flags & FLAG_FUA)) else "n").
PutQuery(h_can_flush, fua) ==
    IF h_can_flush /\ fua THEN "flush=y" ELSE "flush=n"

\* zero(): flush = bool(h['can_flush'] and (flags & FLAG_FUA)).
ZeroFlush(h_can_flush, fua) == h_can_flush /\ fua

\* nbdkit asks can_fua(h).
CanFua ==
    /\ req.pc = "idle"
    /\ req' = [NoRequest EXCEPT !.pc = "done", !.op = "can_fua",
                                !.answer = can_fua(handle)]
    /\ UNCHANGED <<sessionVars, pool>>

\* pwrite(): the PUT with its query and headers on the connection of
\* http_context(), and http.send(buf), which may raise BrokenPipeError.
PwriteRequest(count, fua, broken) ==
    /\ req.pc = "idle"
    /\ pool # <<>>
    /\ pool' = Tail(pool)
    /\ req' = [NoRequest EXCEPT
                  !.pc = "done", !.op = "pwrite",
                  !.count = count, !.fua = fua,
                  !.http = Head(pool),
                  !.requests = <<"PUT">>,
                  !.query = PutQuery(handle.can_flush, fua),
                  !.content_length = count,
                  !.sent = IF broken THEN <<>> ELSE <<count>>,
                  !.broken = broken]
    /\ UNCHANGED sessionVars

\* zero(): without can_zero, emulate_zero() starts the PUT with its query and
\* headers; with it, the PATCH with the JSON body is sent.
ZeroRequest(count, fua) ==
    /\ req.pc = "idle"
    /\ pool # <<>>
    /\ pool' = Tail(pool)
    /\ req' = IF ~handle.can_zero
              THEN [NoRequest EXCEPT
                       !.pc = "emulate", !.op = "zero",
                       !.count = count, !.fua = fua,
                       !.http = Head(pool),
                       !.requests = <<"PUT">>,
                       !.query = PutQuery(handle.can_flush, fua),
                       !.content_length = count,
                       !.left = count]
              ELSE [NoRequest EXCEPT
                       !.pc = "done", !.op = "zero",
                       !.count = count, !.fua = fua,
                       !.http = Head(pool),
                       !.requests = <<"PATCH">>,
                       !.flush = ZeroFlush(handle.can_flush, fua),
                       !.size = count]
    /\ UNCHANGED sessionVars

\* Mutant of MoreChunks: "while count >= len(buf)".
MoreChunksOrEqual(left) == left >= ChunkSize

\* emulate_zero(): "while count > len(buf)".
MoreChunks(left) == left > ChunkSize

\* emulate_zero(), one http.send(): the whole buffer inside the loop, the
\* first count bytes of it after the loop.  BrokenPipeError ends the sending.
EmulateZeroSend(broken) ==
    /\ req.pc = "emulate"
    /\ req' = IF broken
              THEN [req EXCEPT !.broken = TRUE, !.pc = "done"]
              ELSE IF MoreChunks(req.left)
              THEN [req EXCEPT !.sent = Append(@, ChunkSize),
                               !.left = @ - ChunkSize]
              ELSE [req EXCEPT !.sent = Append(@, req.left),
                               !.left = 0,
                               !.pc = "done"]
    /\ UNCHANGED <<sessionVars, pool>>

\* The call ends: the response is read and http_context() puts the
\* connection back.
RequestEnd ==
    /\ req.pc = "done"
    /\ pool' = IF req.http # 0 THEN Append(pool, req.http) ELSE pool
    /\ req' = NoRequest
    /\ UNCHANGED sessionVars

\* The lengths of the buffers nbdkit calls pread with.
ReadCounts == 1..MaxRead

\* The statuses of the responses to the GET of pread.
ReadStatuses == {200, 206, 416}

\* The Content-Length headers of those responses: absent, or a number.
ReadHeaders ==
    {[present |-> FALSE, value |-> 0]}
        \cup [present : {TRUE}, value : 0..(MaxRead + 1)]

\* Mutant of PreadCheck: the Content-Length header is not compared with
\* the length of the buffer.
PreadCheckStatusOnly(count, status, header) ==
    IF status # 206 THEN "could not read"
    ELSE IF ~header.present THEN "TypeError"
    ELSE "none"

\* pread(), the checks of the response before the body is read: the message
\* of the first request_failed() reached ("none" when both are passed);
\* int() of a header that is absent raises TypeError.
PreadCheck(count, status, header) ==
    IF status # 206 THEN "could not read"
    ELSE IF ~header.present THEN "TypeError"
    ELSE IF header.value # count THEN "unexpected Content-Length"
    ELSE "none"

\* pread(): the GET on the connection of http_context() and the checks of
\* the response.  An exception leaves the with block, whose finally clause
\* puts the connection back.
PreadRequest(count, status, header) ==
    /\ req.pc = "idle"
    /\ pool # <<>>
    /\ LET msg == PreadCheck(count, status, header) IN
        IF msg = "none"
        THEN /\ pool' = Tail(pool)
             /\ req' = [NoRequest EXCEPT
                           !.pc = "readinto", !.op = "pread",
                           !.count = count, !.http = Head(pool),
                           !.requests = <<"GET">>,
                           !.status = status, !.header = header]
        ELSE /\ pool' = Append(Tail(pool), Head(pool))
             /\ req' = [NoRequest EXCEPT
                           !.pc = "unwinding", !.op = "pread",
                           !.count = count,
                           !.requests = <<"GET">>,
                           !.status = status, !.header = header,
                           !.msg = msg]
    /\ UNCHANGED sessionVars

\* pread(), one iteration of "while got < count": r.readinto(view[got:])
\* returns n, at most the length of the rest of the buffer; n == 0 calls
\* request_failed().  Leaving the with block, by the end of the loop or by
\* the exception, puts the connection back.
PreadReadinto(n) ==
    /\ req.pc = "readinto"
    /\ n <= req.count - req.got
    /\ LET got == req.got + n IN
        IF n = 0
        THEN /\ req' = [req EXCEPT !.reads = Append(@, n),
                                   !.msg = "short read",
                                   !.http = 0, !.pc = "unwinding"]
             /\ pool' = Append(pool, req.http)
        ELSE IF got < req.count
        THEN /\ req' = [req EXCEPT !.reads = Append(@, n), !.got = got]
             /\ pool' = pool
        ELSE /\ req' = [req EXCEPT !.reads = Append(@, n), !.got = got,
                                   !.http = 0, !.pc = "returned"]
             /\ pool' = Append(pool, req.http)
    /\ UNCHANGED sessionVars

\* The wrapper of "failing" around pread: h['failed'] = True, and the
\* exception is raised again.
PreadMarkFailed ==
    /\ req.pc = "unwinding"
    /\ failed' = TRUE
    /\ req' = [req EXCEPT !.pc = "raised"]
    /\ UNCHANGED <<opc, opn, elapsed, handle, pool, thr, cl, httpClosed,
                   connClosed, cplog, diskid_file>>

\* pread has returned or raised to nbdkit.
PreadEnd ==
    /\ req.pc \in {"returned", "raised"}
    /\ req' = NoRequest
    /\ UNCHANGED <<sessionVars, pool>>

NextRequest ==
    \/ CanFua
    \/ \E count \in Counts, fua \in BOOLEAN, broken \in BOOLEAN :
          PwriteRequest(count, fua, broken)
    \/ \E count \in Counts, fua \in BOOLEAN : ZeroRequest(count, fua)
    \/ \E broken \in BOOLEAN : EmulateZeroSend(broken)
    \/ RequestEnd
    \/ \E count \in ReadCounts, status \in ReadStatuses,
          header \in ReadHeaders : PreadRequest(count, status, header)
    \/ \E n \in 0..MaxRead : PreadReadinto(n)
    \/ PreadMarkFailed
    \/ PreadEnd

SpecRequest == InitRequest /\ [][NextRequest]_vars

(***************************************************************************)
(* Properties                                                              *)
(***************************************************************************)

\* The handle is open: open() returned it and close() has not ended.
SessionOpen == opc = "opened" /\ cl.pc \notin {"returned", "raised"}

Connections == 1..handle.connections

\* The number of operations (worker threads and close) holding connection c.
RECURSIVE HoldersAmong(_, _)
HoldersAmong(c, T) ==
    IF T = {} THEN 0
    ELSE LET t == CHOOSE x \in T : TRUE
         IN (IF c \in Held(t) THEN 1 ELSE 0) + HoldersAmong(c, T \ {t})
Holders(c) == HoldersAmong(c, Threads) + (IF c \in ClosingHeld THEN 1 ELSE 0)

\* The number of times connection c is in the idle queue.
Idle(c) == Cardinality({i \in DOMAIN pool : pool[i] = c})

RECURSIVE SumOver(_, _)
SumOver(f, S) ==
    IF S = {} THEN 0
    ELSE LET x == CHOOSE y \in S : TRUE IN f[x] + SumOver(f, S \ {x})

\* The number of connections checked out, counted per holder.
CheckedOut ==
    SumOver([t \in Threads |-> Cardinality(Held(t))], Threads)
    + Cardinality(ClosingHeld)

\* C1: while the session is open, idle + checkedOut = N, every one of the N
\* connections is either idle in the pool (once) or held by exactly one
\* operation, and nothing else is in the pool or held.
C1_PoolAccounting ==
    SessionOpen =>
        /\ Len(pool) + CheckedOut = handle.connections
        /\ \A c \in Connections : Idle(c) + Holders(c) = 1
        /\ Range(pool) \subseteq Connections
        /\ \A t \in Threads : Held(t) \subseteq Connections
        /\ ClosingHeld \subseteq Connections

\* C1 witness: of two connections one is held by a read, write or zero that
\* is exchanging, the other by a flush that is still collecting.
C1_Witness ==
    /\ SessionOpen
    /\ handle.connections = 2
    /\ \E t, u \in Threads :
        /\ thr[t].pc = "request"
        /\ thr[u].pc = "collect" /\ Len(thr[u].locked) = 1
        /\ cl.pc = "collect"

\* C2: a flush call that has returned sent exactly one flush request on each
\* of the N connections and each was answered 200; a flush call one of whose
\* requests was answered otherwise (or not at all) is raising, not returning.
C2_FlushAllAcknowledged ==
    \A t \in Threads : thr[t].op = "flush" =>
        /\ thr[t].pc = "returned" =>
            /\ Len(thr[t].flushed) = handle.connections
            /\ {thr[t].flushed[i].http : i \in DOMAIN thr[t].flushed}
                   = Connections
            /\ \A i \in DOMAIN thr[t].flushed : thr[t].flushed[i].status = 200
        /\ (\E i \in DOMAIN thr[t].flushed : thr[t].flushed[i].status # 200)
            => /\ thr[t].pc \in {"unlock", "unwinding", "raised"}
               /\ thr[t].err

\* C2 witness: a flush over two connections has returned.
C2_Witness ==
    \E t \in Threads :
        /\ thr[t].op = "flush" /\ thr[t].pc = "returned"
        /\ handle.connections = 2

\* C3: whenever flush is about to send a flush request (its generator has
\* yielded), it holds all N distinct connections, the idle pool is empty and
\* no other operation holds a connection.
C3_DrainBeforeYield ==
    \A t \in Threads : thr[t].pc = "iterate" =>
        /\ Len(thr[t].locked) = handle.connections
        /\ Range(thr[t].locked) = Connections
        /\ pool = <<>>
        /\ \A u \in Threads \ {t} : Held(u) = {}
        /\ ClosingHeld = {}

\* C3 witness: flush is sending its second request while another operation
\* waits for a connection.
C3_Witness ==
    \E t, u \in Threads :
        /\ thr[t].pc = "iterate" /\ thr[t].idx = 2
        /\ thr[u].pc = "get"

\* A read, write or zero gets a connection out of the pool in this step.
CheckoutSucceeds == \E t \in Threads :
    thr[t].pc = "get" /\ thr'[t].pc = "request"

\* A drain-all has started collecting and holds at least one connection, or
\* is past collecting, and has not begun to put the connections back.
DrainInProgress ==
    \/ \E t \in Threads :
          \/ thr[t].pc = "collect" /\ thr[t].locked # <<>>
          \/ thr[t].pc = "iterate"
    \/ cl.pc = "collect" /\ cl.locked # <<>>
    \/ cl.pc \notin {"none", "collect"}

\* A drain-all holds all N connections: flush is iterating, or
\* close_http_pool() has left its collecting loop (it never puts them back).
DrainHoldsAll ==
    \/ \E t \in Threads : thr[t].pc = "iterate"
    \/ cl.pc \notin {"none", "collect"}

\* C4 as claimed: from the moment a drain-all starts collecting until it has
\* returned the connections, no checkout by a read, write or zero succeeds.
C4_NoCheckoutDuringDrain == [][DrainInProgress => ~CheckoutSucceeds]_vars

\* C4 as amended: from the moment a drain-all holds all N connections until
\* it starts to put them back (close never does), no checkout by a read,
\* write or zero succeeds; an operation that starts then stays blocked.
C4_NoCheckoutWhileDrained == [][DrainHoldsAll => ~CheckoutSucceeds]_vars

\* C4 witness: flush holds both connections and has sent nothing yet, close
\* and a read, write or zero wait for a connection.
C4_Witness ==
    \E t, u \in Threads :
        /\ thr[t].pc = "iterate" /\ thr[t].idx = 1
        /\ handle.connections = 2
        /\ thr[u].pc = "get"
        /\ cl.pc = "collect"

\* C5: once a read, write, zero or flush has ended, by returning or by
\* raising, it holds no connection and each of the N connections is in the
\* idle pool exactly once or held by another operation; so are all N
\* connections of a flush that failed on any of them.
C5_ReturnedOnEveryPath ==
    SessionOpen =>
        \A t \in Threads : thr[t].pc \in {"unwinding", "raised", "returned"} =>
            /\ thr[t].http = 0
            /\ thr[t].locked = <<>>
            /\ \A c \in Connections :
                /\ Idle(c) <= 1
                /\ Idle(c) = 0 =>
                    \/ \E u \in Threads \ {t} : c \in Held(u)
                    \/ c \in ClosingHeld

\* C5 witness: flush failed on the second of its two connections and has
\* raised; both connections are idle in the pool.
C5_Witness ==
    \E t \in Threads :
        /\ thr[t].op = "flush" /\ thr[t].pc = "raised"
        /\ Len(thr[t].flushed) = 2
        /\ thr[t].flushed[2].status # 200
        /\ Range(pool) = {1, 2}
        /\ SessionOpen

\* C6: failed is false when open returns the handle, is true whenever a read,
\* write, zero or flush has raised to its caller, and is never set back.
C6_FailedMonotonic ==
    [][/\ failed => failed'
       /\ (opc # "opened" /\ opc' = "opened") => ~failed'
       /\ \A t \in Threads : thr'[t].pc = "raised" => failed']_vars

\* C6 witness: one operation has raised, another has returned after it, and
\* the flag is still set.
C6_Witness ==
    \E t, u \in Threads :
        /\ thr[t].pc = "idle"
        /\ thr[u].pc = "returned"
        /\ failed

\* close() has ended: it returned to nbdkit or raised.
CloseEnded == cl.pc \in {"returned", "raised"}

\* C7 as claimed: when a read, write, zero or flush has signalled failure
\* (the handle is marked failed), a close that has ended has issued a cancel
\* call and no finalize call, and the disk-id file is not written.
C7_FailedCloseCancels ==
    (CloseEnded /\ failed) =>
        /\ Calls = <<"cancel">>
        /\ diskid_file = "absent"

\* C8 as claimed: the disk-id file is written only by a close that ran
\* finalize with success, on a handle open() returned and that is not marked
\* failed, and that issued no cancel.
C8_DiskIdOnlyOnSuccess ==
    diskid_file = "written" =>
        /\ opc = "opened"
        /\ cl.pc \in {"conn_close", "returned"}
        /\ cl.exc = "none"
        /\ cplog = <<Call("finalize", TRUE)>>
        /\ ~failed

\* close() has raised on the finalize path, and not from writing the file.
CloseRaisedAfterFinalize ==
    /\ cl.pc = "raised"
    /\ cl.exc # "write"
    /\ Calls # <<>>
    /\ Calls[1] = "finalize"

\* C9 as claimed: close of a non-failed session issues finalize; when finalize
\* fails, close has issued a cancel call once the error reaches the caller,
\* and that error is the finalize failure.
C9_FinalizeFailurePropagates ==
    /\ (CloseEnded /\ ~failed) => (Calls # <<>> /\ Calls[1] = "finalize")
    /\ CloseRaisedAfterFinalize =>
        /\ Calls = <<"finalize", "cancel">>
        /\ cl.exc = "finalize"

\* C9 as amended: as claimed, except that the error that reaches the caller
\* is the finalize failure only when the cancel call returns; when the cancel
\* call raises, it is the error of the cancel call.
C9_FinalizeFailureThenCancel ==
    /\ (CloseEnded /\ ~failed) => (Calls # <<>> /\ Calls[1] = "finalize")
    /\ CloseRaisedAfterFinalize =>
        /\ Calls = <<"finalize", "cancel">>
        /\ cl.exc = IF cplog[2].ok THEN "finalize" ELSE "cancel"

\* C9 witness: finalize was called and timed out or met a failure while
\* polling, the cancel call returned, and close raised the finalize failure.
C9_Witness ==
    /\ cl.pc = "raised"
    /\ ~failed
    /\ cplog = <<Call("finalize", TRUE), Call("cancel", TRUE)>>
    /\ cl.exc = "finalize"

\* C10: a close call that has returned or raised has closed all N pool
\* connections and the control-plane connection.
C10_CloseReleasesAll ==
    CloseEnded =>
        /\ httpClosed = Connections
        /\ connClosed

\* C10 witness: close of a failed session over two connections raised the
\* error of the cancel call.
C10_Witness ==
    /\ cl.pc = "raised"
    /\ cl.exc = "cancel"
    /\ cplog = <<Call("cancel", FALSE)>>
    /\ handle.connections = 2

\* The number of calls c among the control-plane calls issued so far.
CallCount(c) == Cardinality({i \in DOMAIN cplog : cplog[i].call = c})

\* C11: a close call issues cancel at most once and finalize at most once,
\* and once it has ended it has issued at least one of them: the calls of a
\* close are cancel alone (failed session), finalize alone (finalize
\* succeeded), or finalize and then cancel (finalize failed).
C11_CleanupOnce ==
    /\ cl.pc # "none" =>
        (CallCount("cancel") <= 1 /\ CallCount("finalize") <= 1)
    /\ CloseEnded =>
        /\ CallCount("cancel") + CallCount("finalize") >= 1
        /\ Calls \in {<<"cancel">>, <<"finalize">>, <<"finalize", "cancel">>}

\* C11 witness: finalize was issued and returned, the wait for the transfer
\* failed, the cancel call raised, and close has ended.
C11_Witness ==
    /\ CloseEnded
    /\ cplog = <<Call("finalize", TRUE), Call("cancel", FALSE)>>

\* close_http_pool() has closed the connections it collected.
PoolClosed == cl.pc \notin {"none", "collect", "closing"}

\* C12: once close has drained and closed the pool, the idle pool is empty,
\* no read, write, zero or flush holds a connection (a checkout that succeeded
\* would hold one), and the connections an operation holds at any time are
\* not closed ones.
C12_PoolUnusableAfterClose ==
    /\ PoolClosed =>
        /\ pool = <<>>
        /\ httpClosed = Connections
        /\ \A t \in Threads :
            /\ Held(t) = {}
            /\ thr[t].pc \notin {"request", "iterate", "unlock"}
    /\ \A t \in Threads : Held(t) \cap httpClosed = {}

\* C12 witness: close has returned; a read, write or zero and a flush that
\* were called on the handle wait for a connection.
C12_Witness ==
    /\ cl.pc = "returned"
    /\ \E t, u \in Threads :
        /\ thr[t].pc = "get"
        /\ thr[u].pc = "collect"
    /\ handle.connections = 2

\* The exceptions of the try block of open(): no direct URL, unknown URL
\* scheme, OPTIONS not usable, pool creation failing.
SetupErrors == {"no_direct_url", "scheme", "options", "pool"}

\* C13: when the try block of open() fails, the transfer being in
\* TRANSFERRING, for any of its four causes (direct mode without a direct
\* URL, a URL scheme other than https and http, an OPTIONS status other than
\* 200, 204 and 405, the pool not created), open goes to its except clause,
\* issues exactly one cancel call and raises; no handle is returned.  The
\* error raised is the one of the try block when the cancel call returns.
C13_SetupFailureCancels ==
    [][/\ (opc = "setup" /\ opn'.direct /\ ~opn'.transfer_url) =>
             (opc' = "cancel" /\ opn'.exc = "no_direct_url")
       /\ (opc = "setup" /\ opn'.scheme \notin {"none", "https", "http"}) =>
             (opc' = "cancel" /\ opn'.exc = "scheme")
       /\ (opc = "options" /\ opn.r.status \notin {200, 204, 405}) =>
             (opc' = "cancel" /\ opn'.exc = "options")
       /\ (opc = "options" /\ opn'.exc = "pool") => opc' = "cancel"
       /\ opc = "cancel" =>
             /\ opn.phase = "TRANSFERRING" /\ opn.exc \in SetupErrors
             /\ cplog = <<>>
             /\ opc' = "raised"
             /\ Calls' = <<"cancel">>
             /\ opn'.exc = IF cplog'[1].ok THEN opn.exc ELSE "cancel"
       /\ (opc' = "raised" /\ opn'.phase = "TRANSFERRING") =>
             /\ Calls' = <<"cancel">>
             /\ opn'.exc # "none"
             /\ handle' = NoHandle /\ pool' = <<>>]_vars

\* C13 witness: direct mode was asked for, the transfer had no direct URL,
\* and open has raised that error after one cancel call.
C13_Witness ==
    /\ opc = "raised"
    /\ opn.phase = "TRANSFERRING"
    /\ opn.direct /\ ~opn.transfer_url
    /\ opn.exc = "no_direct_url"
    /\ cplog = <<Call("cancel", TRUE)>>
    /\ handle = NoHandle

\* open() has raised out of the loop of create_transfer(): the transfer was
\* created and the last phase got (or the transfer not found) is not
\* TRANSFERRING.
OpenLifecycleError ==
    /\ opc = "raised"
    /\ opn.transfer
    /\ opn.phase \notin {"none", "TRANSFERRING"}

\* C14 as claimed: whenever open fails with a lifecycle error after the
\* transfer was created, a cancel call has been issued.
C14_LifecycleErrorCancels ==
    OpenLifecycleError => CallCount("cancel") >= 1

\* C14 as amended: a paused phase, an unexpected phase and the
\* initialization timeout issue one cancel call before open raises; a failure
\* phase and a removed transfer raise with no cancel call.
C14_LifecycleErrorCancelsUnlessGone ==
    OpenLifecycleError =>
        /\ opn.exc # "none"
        /\ IF opn.phase \in {"FINISHED_FAILURE", "NOT_FOUND"}
           THEN cplog = <<>>
           ELSE Calls = <<"cancel">>

\* C14 witness: the transfer stayed in INITIALIZING past the deadline; open
\* cancelled it and raised the timeout.
C14_Witness ==
    /\ OpenLifecycleError
    /\ opn.phase = "INITIALIZING"
    /\ opn.exc = "timeout"
    /\ cplog = <<Call("cancel", TRUE)>>

\* max_readers or max_writers as get_options() returns it for response r.
LimitOf(r, advertised) ==
    IF r.status = 200 /\ advertised # 0 THEN advertised ELSE 1

\* C17: when open returns the handle, its pool has exactly
\* min(max_readers, max_writers, 4) connections, each limit being 1 when the
\* 200 answer omits it; after a 204 or 405 answer can_flush and can_zero are
\* false, the options have no unix_socket and the pool has 1 connection; the
\* number of connections recorded in the handle never changes afterwards.
C17_PoolSize ==
    [][/\ (opc = "options" /\ opc' = "opened") =>
             LET r == opn.r
                 MaxReaders == LimitOf(r, r.j.max_readers)
                 MaxWriters == LimitOf(r, r.j.max_writers)
             IN /\ Len(pool') = Min3(MaxReaders, MaxWriters, 4)
                /\ pool' = [i \in 1..Len(pool') |-> i]
                /\ handle'.connections = Len(pool')
                /\ r.status \in {204, 405} =>
                      /\ ~handle'.can_flush /\ ~handle'.can_zero
                      /\ ~OptionsOf(r).unix_socket
                      /\ Len(pool') = 1
       /\ opc = "opened" =>
             (opc' = "opened" /\ handle'.connections = handle.connections)
      ]_vars

\* C17 witness: the server advertised 5 readers and 5 writers; the handle has
\* 4 connections and a flush holds them all.
C17_Witness ==
    /\ opc = "opened"
    /\ handle.connections = 4
    /\ thr[1].pc = "iterate" /\ Len(thr[1].locked) = 4

\* C18: an iteration of the transfer initialization loop that observes
\* TRANSFERRING makes it succeed with no cancel call; PAUSED_SYSTEM or any
\* phase other than INITIALIZING, TRANSFERRING and FINISHED_FAILURE issues one
\* cancel call and raises; FINISHED_FAILURE or a transfer not found raises
\* with no cancel call; the loop goes on only while the phase is
\* INITIALIZING; when it raises, no request was sent to the image service and
\* no handle is returned.
C18_TransferInitialization ==
    [][opc = "transfer_poll" =>
         /\ opn'.phase = "TRANSFERRING" =>
               (opc' = "setup" /\ cplog' = <<>> /\ opn'.exc = "none")
         /\ opn'.phase \in Phases \ {"INITIALIZING", "TRANSFERRING",
                                     "FINISHED_FAILURE"} =>
               (opc' = "raised" /\ Calls' = <<"cancel">> /\ opn'.exc # "none")
         /\ opn'.phase \in {"FINISHED_FAILURE", "NOT_FOUND"} =>
               /\ opc' = "raised" /\ cplog' = <<>>
               /\ opn'.exc \in {"failed", "removed"}
         /\ opc' = "transfer_poll" => opn'.phase = "INITIALIZING"
         /\ opc' = "raised" =>
               /\ ~opn'.r.sent
               /\ handle' = NoHandle /\ pool' = <<>>
               /\ \A t \in Threads : thr'[t] = IdleThread]_vars

\* C18 witness: the transfer was paused by the system; open issued one cancel
\* call and raised, having sent nothing to the image service.
C18_Witness ==
    /\ opc = "raised"
    /\ opn.phase = "PAUSED_SYSTEM"
    /\ opn.exc = "paused"
    /\ cplog = <<Call("cancel", TRUE)>>
    /\ ~opn.r.sent

\* C20: the transfer is created only after a poll got the disk with status
\* OK; an iteration that got any other status stays in the loop, or raises the
\* timeout when the deadline is exceeded (the loop never goes on past it);
\* open then raises with no transfer created and no cancel call issued.
C20_DiskBeforeTransfer ==
    [][/\ opc' \in {"transfer_add", "transfer_poll"} =>
             opn'.disk_status = "OK"
       /\ opn'.transfer => opn'.disk_status = "OK"
       /\ opc = "disk_poll" =>
             /\ opn'.disk_status = "OK" => opc' = "transfer_add"
             /\ opn'.disk_status # "OK" =>
                   /\ opc' \in {"disk_poll", "raised"}
                   /\ opc' = "disk_poll" => elapsed' <= timeout
                   /\ opc' = "raised" => \E d \in Delays : Tick(d) > timeout
             /\ opc' = "raised" =>
                   /\ opn'.exc = "disk_timeout"
                   /\ ~opn'.transfer
                   /\ cplog' = <<>>
                   /\ handle' = NoHandle]_vars

\* C20 witness: the disk stayed LOCKED past the deadline and open raised the
\* timeout.
C20_Witness ==
    /\ opc = "raised"
    /\ opn.exc = "disk_timeout"
    /\ opn.disk_status = "LOCKED"
    /\ ~opn.transfer
    /\ cplog = <<>>

\* What finalize_transfer() last got is its success condition: the transfer
\* in FINISHED_SUCCESS, or the transfer not found and the disk, got then,
\* with status OK.
FinalizeSuccessSeen(c) ==
    \/ c.phase = "FINISHED_SUCCESS" /\ c.disk_status = "none"
    \/ c.phase = "NOT_FOUND" /\ c.disk_status = "OK"

\* C19: finalize succeeds (close goes on to write the disk-id file) exactly
\* when the poll that ends it got FINISHED_SUCCESS, or got the transfer not
\* found and the disk OK; the disk is got only in an iteration that leaves
\* the loop, and only when the transfer is not found; FINISHED_FAILURE,
\* PAUSED_SYSTEM, a disk not found or not OK, or the deadline exceeded make it
\* raise; the loop goes on only before the deadline; no cancel call is issued
\* inside finalize, and after the success outcome close issues none and the
\* file is written unless writing it raises.
C19_FinalizeOutcome ==
    [][/\ cl.pc = "finalize_poll" =>
             /\ Calls = <<"finalize">> /\ Calls' = Calls
             /\ cl'.pc \in {"finalize_poll", "write", "cancel_fin"}
             /\ cl'.pc = "write" <=> FinalizeSuccessSeen(cl')
             /\ cl'.pc = "finalize_poll" =>
                   /\ cl'.phase \notin {"FINISHED_SUCCESS", "FINISHED_FAILURE",
                                        "PAUSED_SYSTEM", "NOT_FOUND"}
                   /\ cl'.disk_status = "none"
                   /\ elapsed' <= timeout
             /\ cl'.pc = "cancel_fin" =>
                   /\ cl'.exc = "finalize"
                   /\ cl'.phase = "NOT_FOUND" =>
                         cl'.disk_status \in {"NOT_FOUND", "LOCKED", "ILLEGAL"}
                   /\ cl'.phase # "NOT_FOUND" => cl'.disk_status = "none"
       /\ cl.pc = "write" =>
             /\ FinalizeSuccessSeen(cl)
             /\ Calls = <<"finalize">> /\ Calls' = Calls
             /\ cl'.pc \in {"write", "conn_close"}
             /\ cl'.pc = "conn_close" =>
                   (diskid_file' = "written" \/ cl'.exc = "write")
       /\ diskid_file' = "written" => Calls' = <<"finalize">>]_vars

\* C19 witness: finalize saw the transfer removed and the disk OK, and close
\* is about to write the disk-id file, with no cancel call issued.
C19_Witness ==
    /\ cl.pc = "write"
    /\ cl.phase = "NOT_FOUND" /\ cl.disk_status = "OK"
    /\ cplog = <<Call("finalize", TRUE)>>

\* C15: the flush option of a PUT (flush=y in its query) and of a zero PATCH
\* (flush in its body) is set exactly when the call carries the FUA flag and
\* can_flush of the handle is true; with can_flush false it is never set; and
\* can_fua answers what can_flush answers.
C15_FlushOption ==
    /\ req.requests = <<"PUT">> =>
          /\ req.query \in {"flush=y", "flush=n"}
          /\ req.query = "flush=y" <=> (req.fua /\ handle.can_flush)
    /\ req.requests = <<"PATCH">> =>
          (req.flush <=> (req.fua /\ handle.can_flush))
    /\ ~handle.can_flush => (req.query # "flush=y" /\ ~req.flush)
    /\ req.op = "can_fua" => req.answer = can_flush(handle)

\* C15 witness: a write with the FUA flag on a handle with can_flush.
C15_Witness ==
    /\ req.op = "pwrite" /\ req.fua
    /\ handle.can_flush
    /\ req.query = "flush=y"

RECURSIVE SumSeq(_)
SumSeq(q) == IF q = <<>> THEN 0 ELSE Head(q) + SumSeq(Tail(q))

\* C16: without can_zero, a zero of count S is one PUT on one connection with
\* Content-Length S; every buffer sent before the last is a full one, and
\* unless a send met a broken pipe the buffers sent total S, the last having
\* S mod 128 KiB bytes, or 128 KiB when that is 0.  With can_zero the call is
\* one PATCH of size S and nothing is sent by PUT.
C16_ZeroEmulation ==
    req.op = "zero" =>
        /\ req.http = 1 /\ pool = <<>>
        /\ req.count \in Counts
        /\ ~handle.can_zero =>
              /\ req.requests = <<"PUT">>
              /\ req.content_length = req.count
              /\ \A i \in DOMAIN req.sent :
                    i < Len(req.sent) \/ req.pc = "emulate" =>
                       req.sent[i] = 128 * 1024
              /\ ~req.broken => SumSeq(req.sent) + req.left = req.count
              /\ (req.pc = "done" /\ ~req.broken) =>
                    /\ SumSeq(req.sent) = req.count
                    /\ req.sent # <<>>
                    /\ req.sent[Len(req.sent)] =
                          IF req.count % (128 * 1024) = 0
                          THEN 128 * 1024
                          ELSE req.count % (128 * 1024)
        /\ handle.can_zero =>
              /\ req.requests = <<"PATCH">>
              /\ req.size = req.count
              /\ req.sent = <<>> /\ req.content_length = 0

\* C16 witness: an emulated zero of two buffers and one byte has sent it all.
C16_Witness ==
    /\ req.op = "zero" /\ req.pc = "done"
    /\ ~handle.can_zero
    /\ req.count = 2 * ChunkSize + 1
    /\ req.sent = <<ChunkSize, ChunkSize, 1>>

\* A read, write, zero or flush sends a request to the image service in this
\* step: the exchange of pread, pwrite or zero, or one PATCH of flush.
RequestSent ==
    \E t \in Threads :
        /\ thr[t].pc \in {"request", "iterate"}
        /\ thr'[t] # thr[t]

\* C21: when close issues finalize or cancel, the drain of the pool is
\* complete: close holds all N connections, the idle pool is empty, and no
\* read, write, zero or flush holds a connection or is between checkout and
\* checkin; and from the first finalize or cancel call of close on, no read,
\* write, zero or flush request is sent to the image service.
C21_DrainBeforeFinalize ==
    [][/\ (cl.pc # "none" /\ cplog' # cplog) =>
            /\ Len(cl.locked) = handle.connections
            /\ ClosingHeld = Connections
            /\ pool = <<>>
            /\ \A t \in Threads :
                /\ Held(t) = {}
                /\ thr[t].pc \notin {"request", "iterate", "unlock"}
       /\ (cl.pc # "none" /\ cplog # <<>>) => ~RequestSent]_vars

\* C21 witness: close has issued finalize; one operation that held a
\* connection has returned, having checked it in before the drain ended;
\* another waits for a connection and has sent nothing.
C21_Witness ==
    /\ cl.pc = "finalize_poll"
    /\ cplog = <<Call("finalize", TRUE)>>
    /\ handle.connections = 2
    /\ \E t, u \in Threads :
        /\ thr[t].pc = "returned"
        /\ thr[u].pc \in {"get", "collect"}

\* A value r.readinto() returned to pread was 0.
ZeroLengthRead == \E i \in DOMAIN req.reads : req.reads[i] = 0

\* pread is raising or has raised.
PreadRaises == req.pc \in {"unwinding", "raised"}

\* C22: pread sends one GET and never a second; it returns only when the
\* status was 206, the Content-Length header equalled the length of the
\* buffer and the reads filled the buffer exactly; any other status, a
\* Content-Length that differs, or a read of length 0 before the buffer is
\* full makes it raise with the message of that case; once it has returned
\* or is raising, the connection is back in the pool; and when it has raised
\* the handle is marked failed.
C22_PreadProtocol ==
    req.op = "pread" =>
        /\ req.requests = <<"GET">>
        /\ req.got = SumSeq(req.reads) /\ req.got <= req.count
        /\ req.pc = "returned" =>
            /\ req.status = 206
            /\ req.header.present /\ req.header.value = req.count
            /\ req.got = req.count
            /\ ~ZeroLengthRead
            /\ req.msg = "none"
        /\ req.status # 206 =>
            (PreadRaises /\ req.msg = "could not read" /\ req.reads = <<>>)
        /\ (req.status = 206 /\ req.header.present
                /\ req.header.value # req.count) =>
            /\ PreadRaises
            /\ req.msg = "unexpected Content-Length"
            /\ req.reads = <<>>
        /\ ZeroLengthRead =>
            /\ PreadRaises
            /\ req.msg = "short read"
            /\ req.got < req.count
            /\ req.reads[Len(req.reads)] = 0
        /\ req.pc \in {"returned", "unwinding", "raised"} =>
            (req.http = 0 /\ pool = <<1>>)
        /\ req.pc = "raised" => failed

\* C22 witness: a read of 3 bytes got status 206 and Content-Length 3, read
\* 2 bytes and then 0 bytes, and has raised; the handle is marked failed
\* and the connection is back in the pool.
C22_Witness ==
    /\ req.op = "pread"
    /\ req.pc = "raised"
    /\ req.count = 3
    /\ req.reads = <<2, 0>>
    /\ req.msg = "short read"
    /\ failed /\ pool = <<1>>

\* A read, write, zero or flush has been called and has not yet returned or
\* raised to nbdkit.
InProgress(t) == thr[t].pc # "idle"

\* C23: no deadlock on the pool.  As long as close has not been called,
\* whenever reads, writes, zeros or flushes are in progress at least one of
\* them can take its next step (HTTP exchanges on held connections always
\* complete, so only pool.get() on the empty queue can block a step).  A
\* state where none can is one from which no operation in progress ever
\* returns or raises, since only their own steps put connections back.
C23_NoPoolDeadlock ==
    (cl.pc = "none" /\ \E t \in Threads : InProgress(t)) =>
        \E u \in Threads : InProgress(u) /\ ENABLED Worker(u)

\* C24: each polling loop is left: the loop of create_disk() with the disk
\* OK or the timeout error, the loop of create_transfer() with the transfer
\* TRANSFERRING or an error, the loop of finalize_transfer() by break or by an
\* error; none polls forever, whatever statuses the control plane reports.
C24_PollingTerminates ==
    /\ (opc = "disk_poll") ~> (opc \in {"transfer_add", "raised"})
    /\ (opc = "transfer_poll") ~> (opc \in {"setup", "raised"})
    /\ (cl.pc = "finalize_poll") ~> (cl.pc \in {"write", "cancel_fin"})

\* C24 witness: the loop of finalize_transfer() has ended with the timeout
\* error: the last poll, past the deadline, got the transfer TRANSFERRING.
C24_Witness ==
    /\ cl.pc = "cancel_fin"
    /\ cl.exc = "finalize"
    /\ cl.phase = "TRANSFERRING"
    /\ cl.late
    /\ cplog = <<Call("finalize", TRUE)>>

\* The phases on which the loop of finalize_transfer() goes on or times out.
FinalizeWaiting == Phases \ {"FINISHED_SUCCESS", "FINISHED_FAILURE",
                             "PAUSED_SYSTEM"}

\* C25: in every iteration of a polling loop the status got is examined
\* before the deadline.  An iteration that got the success state (disk OK,
\* transfer TRANSFERRING, transfer FINISHED_SUCCESS) leaves the loop with
\* success, also past the deadline; an iteration goes on looping only before
\* the deadline; the timeout error is raised only by an iteration past the
\* deadline that got a state on which the loop waits.  The iteration of
\* create_transfer() that times out issues exactly one cancel call, the only
\* call so far; those of create_disk() and finalize_transfer() issue none.
C25_DeadlineAfterStatus ==
    [][/\ opc = "disk_poll" =>
            /\ opn'.disk_status = "OK" => opc' = "transfer_add"
            /\ opc' = "disk_poll" => ~opn'.late
            /\ opc' = "raised" =>
                /\ opn'.exc = "disk_timeout"
                /\ opn'.late /\ opn'.disk_status # "OK"
                /\ cplog' = <<>>
            /\ (opn'.late /\ opn'.disk_status # "OK") => opc' = "raised"
       /\ opc = "transfer_poll" =>
            /\ opn'.phase = "TRANSFERRING" =>
                (opc' = "setup" /\ cplog' = <<>>)
            /\ opc' = "transfer_poll" => ~opn'.late
            /\ (opc' = "raised" /\ opn'.phase = "INITIALIZING") =>
                /\ opn'.late
                /\ opn'.exc \in {"timeout", "cancel"}
                /\ Len(cplog') = 1 /\ cplog'[1].call = "cancel"
                /\ opn'.exc = "timeout" <=> cplog'[1].ok
            /\ opn'.exc = "timeout" =>
                (opn'.phase = "INITIALIZING" /\ opn'.late)
            /\ (opn'.late /\ opn'.phase = "INITIALIZING") => opc' = "raised"
       /\ cl.pc = "finalize_poll" =>
            /\ cl'.phase = "FINISHED_SUCCESS" => cl'.pc = "write"
            /\ cl'.pc = "finalize_poll" => ~cl'.late
            /\ (cl'.pc = "cancel_fin" /\ cl'.phase \in FinalizeWaiting) =>
                /\ cl'.late
                /\ cplog' = cplog /\ CallCount("cancel") = 0
            /\ (cl'.late /\ cl'.phase \in FinalizeWaiting) =>
                cl'.pc = "cancel_fin"]_vars

\* C25 witness: a poll of finalize_transfer() past the deadline got the
\* transfer FINISHED_SUCCESS, and close goes on to write the disk id.
C25_Witness ==
    /\ cl.pc = "write"
    /\ cl.phase = "FINISHED_SUCCESS"
    /\ cl.late
    /\ cplog = <<Call("finalize", TRUE)>>

====
